---- MODULE Spec2Model ----
(***************************************************************************)
(* 1-out-of-2 oblivious transfer (Even-Goldreich-Lempel) of src/lib.rs:    *)
(* one OTReceiver and one OTSender, driven by a caller that may invoke     *)
(* their operations in any order, any number of times (up to MaxCalls      *)
(* each, MaxSteps together), with any offer or response it has at hand.    *)
(*                                                                         *)
(* The rsa crate and OsRng are outside the repository.  They are modelled  *)
(* symbolically: a key pair is an identifier drawn fresh from the random   *)
(* source, a ciphertext names the public key, the plaintext and the        *)
(* padding randomness it was made from, and the private key of the same    *)
(* pair opens it.  Under any other key the PKCS#1 v1.5 unpadding rejects   *)
(* the bytes or, by accident, accepts them and yields other bytes: either  *)
(* outcome can happen at every such decryption.                            *)
(***************************************************************************)
EXTENDS Integers, Sequences, FiniteSets, TLC

\* ---- bounds of the model ----
MaxCalls == 2      \* calls of each operation the caller makes at most
MaxSteps == 5      \* calls the caller makes at most, all operations together
MaxBody == 1       \* distinct byte vectors of one length: 0..MaxBody
MaxXorLen == 2     \* longest byte vector given to xor

\* ---- program constants ----
Bits == 1024                       \* modulus size of generate_public_keys
MaxPayload == Bits \div 8 - 11     \* longest PKCS#1 v1.5 plaintext for that modulus

\* ---- values ----
Choice == {"Zero", "One"}

\* u8
Byte == 0..255

\* Bug: every non-zero bit is taken for One.
from_bit_clamping(bit) ==
    IF bit = 0 THEN [ok |-> TRUE, val |-> "Zero"] ELSE [ok |-> TRUE, val |-> "One"]

\* Choice::from_bit(bit)
from_bit(bit) ==
    IF bit = 0 THEN [ok |-> TRUE, val |-> "Zero"]
    ELSE IF bit = 1 THEN [ok |-> TRUE, val |-> "One"]
    ELSE [ok |-> FALSE, err |-> <<"Invalid choice bit: {}", bit>>]

\* Bug: the match arms are exchanged.
to_bit_exchanged(c) == IF c = "Zero" THEN 1 ELSE 0

\* Choice::to_bit(&self)
to_bit(c) == IF c = "Zero" THEN 0 ELSE 1

\* A message is a byte vector; the model keeps its length and which of the
\* vectors of that length it is.
MsgLens == {MaxPayload, MaxPayload + 1}
MsgBodies == 0..MaxBody
Message == [len : MsgLens, body : MsgBodies]

\* Option<T>: None is <<>>, Some(x) is <<x>>.
None == <<>>
Some(x) == <<x>>

\* Result<T>
Ok(v) == [ok |-> TRUE, val |-> v]
Err(e) == [ok |-> FALSE, err |-> e]
NotCalled == Err("NotCalled")

ErrKeyGeneration == "KeyGeneration"
ErrMessageTooLong == "MessageTooLong"
ErrDecryption == "Decryption"
ErrProtocolState == "Invalid protocol state: private key not generated"

\* ---- the rsa crate, symbolically ----
\* RsaPrivateKey::new(rng, bits): the pair with identifier k, or a failure.
RsaPrivateKey_new(k, succeeds) ==
    IF succeeds THEN Ok([priv |-> k]) ELSE Err(ErrKeyGeneration)

\* RsaPublicKey::from(&private_key)
RsaPublicKey_from(sk) == [pub |-> sk.priv]

\* A byte string that is no encryption under any key.
Garbage == [kind |-> "garbage"]

\* PublicKey::encrypt(rng, pkcs1v15, msg) with padding randomness r.
Pkcs1Encrypt(pk, msg, r) ==
    IF msg.len > MaxPayload
    THEN Err(ErrMessageTooLong)
    ELSE Ok([kind |-> "enc", key |-> pk, msg |-> msg, nonce |-> r])

\* What the PKCS#1 v1.5 unpadding makes of bytes that are no encryption under
\* the public half of the key in use: it rejects them (None), or it takes
\* them by accident for a padded plaintext and yields some bytes that fit
\* the payload, which may or may not be those of a message of the sender.
AccidentalPlaintext == [len |-> MaxPayload, body |-> 0]
Unpaddings == {None, Some(AccidentalPlaintext)}

\* ct is an encryption under the public half of sk.
MadeUnder(sk, ct) == ct.kind = "enc" /\ ct.key = RsaPublicKey_from(sk)

\* RsaPrivateKey::decrypt(pkcs1v15, ciphertext); unpadded is what the
\* unpadding gives when ct was not made under the public half of sk.
Pkcs1Decrypt(sk, ct, unpadded) ==
    IF MadeUnder(sk, ct)
    THEN Ok(ct.msg)
    ELSE IF unpadded = None THEN Err(ErrDecryption) ELSE Ok(unpadded[1])

\* ---- the program ----
VARIABLES
    receiver,     \* OTReceiver {choice, private_key, fake_public_key}
    sender,       \* OTSender {messages}
    nextKey,      \* the next key pair the random source yields
    nextNonce,    \* the next padding randomness the random source yields
    offer,        \* the last ReceiverPublicKeys returned to the caller (Option)
    response,     \* the last SenderResponse returned to the caller (Option)
    genRet,       \* what the last generate_public_keys returned
    encRet,       \* what the last encrypt_messages returned
    decRet,       \* what the last decrypt_message returned
    encArg,       \* the offer the last encrypt_messages was given (Option)
    encAttempted, \* how many encryptions the last encrypt_messages attempted
    decArg,       \* the response the last decrypt_message was given (Option)
    decUnpadded,  \* what the unpadding gave in the last decrypt_message
    sinceEnc,     \* the private key the receiver held when the response at
                  \* hand was made (Option), whether generate_public_keys
                  \* has been invoked since, and whether such a call got
                  \* past its first key generation
    calls,        \* how often each operation has been invoked
    decoys,       \* every decoy private key generated so far
    last,         \* the operation invoked last and whether it returned Ok
    recvFailed,   \* some receiver operation has returned an error
    pure,         \* the last application of a function that has no state:
                  \* its name, its arguments and what it returned
    world         \* two sessions run side by side: for each, its receiver, its
                  \* sender, what they have exchanged and how far it has got

vars == <<receiver, sender, nextKey, nextNonce, offer, response, genRet, encRet, decRet,
          encArg, encAttempted, decArg, decUnpadded, sinceEnc, calls, decoys, last,
          recvFailed, pure, world>>

\* OTReceiver::new(choice)
OTReceiver_new(c) ==
    [choice |-> c, private_key |-> None, fake_public_key |-> None]

\* OTSender::new(message0, message1)
OTSender_new(m0, m1) == [messages |-> <<m0, m1>>]

\* Bug: the real key always goes to slot 0, whatever the choice.
ArrangeKeysIgnoringChoice(c, real_public_key, fake_public_key) ==
    [pk0 |-> real_public_key, pk1 |-> fake_public_key]

\* The match on self.choice that arranges the two public keys.
ArrangeKeys(c, real_public_key, fake_public_key) ==
    IF c = "Zero"
    THEN [pk0 |-> real_public_key, pk1 |-> fake_public_key]
    ELSE [pk0 |-> fake_public_key, pk1 |-> real_public_key]

\* Bug: the offer is built from the private key itself instead of its
\* public half.
generate_public_keys_leaking(self, k, realOk, fakeOk) ==
    LET r1 == RsaPrivateKey_new(k, realOk) IN
    IF ~r1.ok
    THEN [self |-> self, ret |-> r1, dropped |-> {}, used |-> 0]
    ELSE
      LET self1 == [self EXCEPT !.private_key = Some(r1.val)]
          r2 == RsaPrivateKey_new(k + 1, fakeOk)
      IN
      IF ~r2.ok
      THEN [self |-> self1, ret |-> r2, dropped |-> {}, used |-> 1]
      ELSE
        LET fake_public_key == RsaPublicKey_from(r2.val)
            self2 == [self1 EXCEPT !.fake_public_key = Some(fake_public_key)]
        IN [self |-> self2,
            ret |-> Ok(ArrangeKeys(self2.choice, r1.val, fake_public_key)),
            dropped |-> {r2.val},
            used |-> 2]

\* Bug: a receiver that already holds a private key keeps it and only draws
\* a new decoy.
generate_public_keys_keeping_key(self, k, realOk, fakeOk) ==
    LET r1 == IF self.private_key # None
              THEN Ok(self.private_key[1])
              ELSE RsaPrivateKey_new(k, realOk)
    IN
    IF ~r1.ok
    THEN [self |-> self, ret |-> r1, dropped |-> {}, used |-> 0]
    ELSE
      LET self1 == [self EXCEPT !.private_key = Some(r1.val)]
          real_public_key == RsaPublicKey_from(r1.val)
          r2 == RsaPrivateKey_new(k + 1, fakeOk)
      IN
      IF ~r2.ok
      THEN [self |-> self1, ret |-> r2, dropped |-> {}, used |-> 1]
      ELSE
        LET fake_public_key == RsaPublicKey_from(r2.val)
            self2 == [self1 EXCEPT !.fake_public_key = Some(fake_public_key)]
        IN [self |-> self2,
            ret |-> Ok(ArrangeKeys(self2.choice, real_public_key, fake_public_key)),
            dropped |-> {r2.val},
            used |-> 2]

\* OTReceiver::generate_public_keys(&mut self), the random source yielding
\* the pairs k and k + 1, each generation succeeding or not as given.
\* Returns the receiver after the call, the value returned, and the decoy
\* private key the call generated (dropped before it returns).
generate_public_keys(self, k, realOk, fakeOk) ==
    LET r1 == RsaPrivateKey_new(k, realOk) IN
    IF ~r1.ok
    THEN [self |-> self, ret |-> r1, dropped |-> {}, used |-> 0]
    ELSE
      LET self1 == [self EXCEPT !.private_key = Some(r1.val)]
          real_public_key == RsaPublicKey_from(r1.val)
          r2 == RsaPrivateKey_new(k + 1, fakeOk)
      IN
      IF ~r2.ok
      THEN [self |-> self1, ret |-> r2, dropped |-> {}, used |-> 1]
      ELSE
        LET fake_public_key == RsaPublicKey_from(r2.val)
            self2 == [self1 EXCEPT !.fake_public_key = Some(fake_public_key)]
        IN [self |-> self2,
            ret |-> Ok(ArrangeKeys(self2.choice, real_public_key, fake_public_key)),
            dropped |-> {r2.val},
            used |-> 2]

\* Bug: the two messages are encrypted in the wrong order (message 1 goes
\* into slot 0 under pk0, message 0 into slot 1 under pk1).
encrypt_messages_swapped_messages(self, receiver_pks, r0, r1) ==
    LET e0 == Pkcs1Encrypt(receiver_pks.pk0, self.messages[2], r0) IN
    IF ~e0.ok
    THEN [ret |-> e0, attempted |-> 1, drawn |-> 0]
    ELSE
      LET e1 == Pkcs1Encrypt(receiver_pks.pk1, self.messages[1], r1) IN
      IF ~e1.ok
      THEN [ret |-> e1, attempted |-> 2, drawn |-> 1]
      ELSE [ret |-> Ok([encrypted_m0 |-> e0.val, encrypted_m1 |-> e1.val]),
            attempted |-> 2, drawn |-> 2]

\* Bug: message i is encrypted under the key of slot 1 - i.
encrypt_messages_swapped_keys(self, receiver_pks, r0, r1) ==
    LET e0 == Pkcs1Encrypt(receiver_pks.pk1, self.messages[1], r0) IN
    IF ~e0.ok
    THEN [ret |-> e0, attempted |-> 1, drawn |-> 0]
    ELSE
      LET e1 == Pkcs1Encrypt(receiver_pks.pk0, self.messages[2], r1) IN
      IF ~e1.ok
      THEN [ret |-> e1, attempted |-> 2, drawn |-> 1]
      ELSE [ret |-> Ok([encrypted_m0 |-> e0.val, encrypted_m1 |-> e1.val]),
            attempted |-> 2, drawn |-> 2]

\* Bug: the sender looks at the keys it was offered and refuses an offer
\* whose slot 0 holds the younger key.
encrypt_messages_inspecting_keys(self, receiver_pks, r0, r1) ==
    IF receiver_pks.pk0.pub > receiver_pks.pk1.pub
    THEN [ret |-> Err(ErrMessageTooLong), attempted |-> 0, drawn |-> 0]
    ELSE
      LET e0 == Pkcs1Encrypt(receiver_pks.pk0, self.messages[1], r0) IN
      IF ~e0.ok
      THEN [ret |-> e0, attempted |-> 1, drawn |-> 0]
      ELSE
        LET e1 == Pkcs1Encrypt(receiver_pks.pk1, self.messages[2], r1) IN
        IF ~e1.ok
        THEN [ret |-> e1, attempted |-> 2, drawn |-> 1]
        ELSE [ret |-> Ok([encrypted_m0 |-> e0.val, encrypted_m1 |-> e1.val]),
              attempted |-> 2, drawn |-> 2]

\* Bug: the second encryption is tried first, so a message 1 that is too
\* long ends the call before message 0 is encrypted.
encrypt_messages_second_first(self, receiver_pks, r0, r1) ==
    LET e1 == Pkcs1Encrypt(receiver_pks.pk1, self.messages[2], r1) IN
    IF ~e1.ok
    THEN [ret |-> e1, attempted |-> 1, drawn |-> 0]
    ELSE
      LET e0 == Pkcs1Encrypt(receiver_pks.pk0, self.messages[1], r0) IN
      IF ~e0.ok
      THEN [ret |-> e0, attempted |-> 2, drawn |-> 1]
      ELSE [ret |-> Ok([encrypted_m0 |-> e0.val, encrypted_m1 |-> e1.val]),
            attempted |-> 2, drawn |-> 2]

\* OTSender::encrypt_messages(&self, receiver_pks), the random source yielding
\* the padding randomness r0, r1 for the two encryptions.  Returns the value
\* returned, how many encryptions the call attempted and how many random
\* paddings it drew.
encrypt_messages(self, receiver_pks, r0, r1) ==
    LET e0 == Pkcs1Encrypt(receiver_pks.pk0, self.messages[1], r0) IN
    IF ~e0.ok
    THEN [ret |-> e0, attempted |-> 1, drawn |-> 0]
    ELSE
      LET e1 == Pkcs1Encrypt(receiver_pks.pk1, self.messages[2], r1) IN
      IF ~e1.ok
      THEN [ret |-> e1, attempted |-> 2, drawn |-> 1]
      ELSE [ret |-> Ok([encrypted_m0 |-> e0.val, encrypted_m1 |-> e1.val]),
            attempted |-> 2, drawn |-> 2]

\* Bug: the match arms are exchanged, the other slot is decrypted.
SelectOtherCiphertext(c, resp) ==
    IF c = "Zero" THEN resp.encrypted_m1 ELSE resp.encrypted_m0

\* The match on self.choice that picks the ciphertext to decrypt.
SelectCiphertext(c, resp) ==
    IF c = "Zero" THEN resp.encrypted_m0 ELSE resp.encrypted_m1

\* Bug: a missing private key is reported as an ordinary decryption failure.
decrypt_message_undistinguished(self, resp, unpadded) ==
    IF self.private_key = None
    THEN Err(ErrDecryption)
    ELSE Pkcs1Decrypt(self.private_key[1], SelectCiphertext(self.choice, resp), unpadded)

\* Bug: a failed decryption is swallowed and an empty plaintext returned.
decrypt_message_swallowing(self, resp, unpadded) ==
    IF self.private_key = None
    THEN Err(ErrProtocolState)
    ELSE LET d == Pkcs1Decrypt(self.private_key[1], SelectCiphertext(self.choice, resp), unpadded)
         IN IF d.ok THEN d ELSE Ok([len |-> 0, body |-> 0])

\* OTReceiver::decrypt_message(&self, response)
decrypt_message(self, resp, unpadded) ==
    IF self.private_key = None
    THEN Err(ErrProtocolState)
    ELSE Pkcs1Decrypt(self.private_key[1], SelectCiphertext(self.choice, resp), unpadded)

\* ---- what the caller can pass ----
\* An offer made of the public keys of some other receiver.
ForeignOffer == [pk0 |-> [pub |-> -1], pk1 |-> [pub |-> -2]]

Offers == { offer[i] : i \in DOMAIN offer } \cup {ForeignOffer}

\* The response at hand, that response with its slots swapped or with one
\* slot overwritten, and a response of two malformed ciphertexts.
Variants(r) ==
    { r,
      [encrypted_m0 |-> r.encrypted_m1, encrypted_m1 |-> r.encrypted_m0],
      [r EXCEPT !.encrypted_m0 = Garbage],
      [r EXCEPT !.encrypted_m1 = Garbage] }

\* What the unpadding can give in decrypt_message(resp) on self: there is a
\* choice only when the decryption is reached and the ciphertext it is given
\* was not made under the public half of the stored key.
UnpaddingsFor(self, resp) ==
    IF self.private_key # None
       /\ ~MadeUnder(self.private_key[1],
                     IF self.choice = "Zero" THEN resp.encrypted_m0 ELSE resp.encrypted_m1)
    THEN Unpaddings
    ELSE {None}

Responses ==
    UNION { Variants(response[i]) : i \in DOMAIN response }
    \cup {[encrypted_m0 |-> Garbage, encrypted_m1 |-> Garbage]}

\* ---- the state machine ----
\* No operation of the session has been invoked.
NothingCalled ==
    /\ nextKey = 1
    /\ nextNonce = 1
    /\ offer = None
    /\ response = None
    /\ genRet = NotCalled
    /\ encRet = NotCalled
    /\ decRet = NotCalled
    /\ encArg = None
    /\ encAttempted = 0
    /\ decArg = None
    /\ decUnpadded = None
    /\ sinceEnc = [key |-> None, invoked |-> FALSE, generated |-> FALSE]
    /\ calls = [gen |-> 0, enc |-> 0, dec |-> 0]
    /\ decoys = {}
    /\ last = [op |-> "new", ok |-> TRUE]
    /\ recvFailed = FALSE

NoFunctionApplied == [fn |-> "none"]
NoSessions == <<>>

Init ==
    /\ \E c \in Choice : receiver = OTReceiver_new(c)
    /\ \E m0, m1 \in Message : sender = OTSender_new(m0, m1)
    /\ NothingCalled
    /\ pure = NoFunctionApplied
    /\ world = NoSessions

\* The caller has calls left.
MayCall == calls.gen + calls.enc + calls.dec < MaxSteps

GeneratePublicKeys ==
    /\ MayCall
    /\ calls.gen < MaxCalls
    /\ \E realOk, fakeOk \in BOOLEAN :
         LET g == generate_public_keys(receiver, nextKey, realOk, fakeOk) IN
         /\ receiver' = g.self
         /\ genRet' = g.ret
         /\ offer' = IF g.ret.ok THEN Some(g.ret.val) ELSE offer
         /\ nextKey' = nextKey + g.used
         /\ decoys' = decoys \cup g.dropped
         /\ last' = [op |-> "gen", ok |-> g.ret.ok]
         /\ recvFailed' = (recvFailed \/ ~g.ret.ok)
         /\ sinceEnc' = IF response = None
                        THEN sinceEnc
                        ELSE [sinceEnc EXCEPT !.invoked = TRUE,
                                              !.generated = @ \/ g.used > 0]
    /\ calls' = [calls EXCEPT !.gen = @ + 1]
    /\ UNCHANGED <<sender, nextNonce, response, encRet, decRet, encArg,
                   encAttempted, decArg, decUnpadded, pure, world>>

EncryptMessages ==
    /\ MayCall
    /\ calls.enc < MaxCalls
    /\ \E pks \in Offers :
         LET e == encrypt_messages(sender, pks, nextNonce, nextNonce + 1) IN
         /\ encRet' = e.ret
         /\ nextNonce' = nextNonce + e.drawn
         /\ encArg' = Some(pks)
         /\ encAttempted' = e.attempted
         /\ response' = IF e.ret.ok THEN Some(e.ret.val) ELSE response
         /\ last' = [op |-> "enc", ok |-> e.ret.ok]
         /\ sinceEnc' = IF e.ret.ok
                        THEN [key |-> receiver.private_key, invoked |-> FALSE,
                              generated |-> FALSE]
                        ELSE sinceEnc
    /\ calls' = [calls EXCEPT !.enc = @ + 1]
    /\ UNCHANGED <<receiver, sender, nextKey, offer, genRet, decRet, decArg, decUnpadded,
                   decoys, recvFailed, pure, world>>

DecryptMessage ==
    /\ MayCall
    /\ calls.dec < MaxCalls
    /\ \E resp \in Responses : \E unpadded \in UnpaddingsFor(receiver, resp) :
         LET d == decrypt_message(receiver, resp, unpadded) IN
         /\ decRet' = d
         /\ decArg' = Some(resp)
         /\ decUnpadded' = unpadded
         /\ last' = [op |-> "dec", ok |-> d.ok]
         /\ recvFailed' = (recvFailed \/ ~d.ok)
    /\ calls' = [calls EXCEPT !.dec = @ + 1]
    /\ UNCHANGED <<receiver, sender, nextKey, nextNonce, offer, response,
                   genRet, encRet, encArg, encAttempted, sinceEnc, decoys,
                   pure, world>>

Next == GeneratePublicKeys \/ EncryptMessages \/ DecryptMessage

Spec == Init /\ [][Next]_vars

\* Every variable of the protocol session.
session == <<receiver, sender, nextKey, nextNonce, offer, response, genRet,
             encRet, decRet, encArg, encAttempted, decArg, decUnpadded, sinceEnc,
             calls, decoys, last,
             recvFailed>>

\* ---- two sessions side by side ----
SessionIds == {"a", "b"}

\* A session: OTReceiver::new(c) and OTSender::new(m0, m1), nothing exchanged.
NewSession(c, m0, m1) ==
    [receiver |-> OTReceiver_new(c),
     sender |-> OTSender_new(m0, m1),
     offer |-> None,
     response |-> None,
     result |-> None,
     phase |-> "ReceiverInit"]

\* Bug: the private key is kept in one place shared by all receivers (a
\* static), so generating keys in one session overwrites the others' key.
generate_in_static(w, id, k, realOk, fakeOk) ==
    LET g == generate_public_keys(w[id].receiver, k, realOk, fakeOk) IN
    [s \in DOMAIN w |->
        IF s = id
        THEN [w[s] EXCEPT !.receiver = g.self,
                          !.offer = IF g.ret.ok THEN Some(g.ret.val) ELSE None,
                          !.phase = IF g.ret.ok THEN "KeysGenerated" ELSE "Aborted"]
        ELSE [w[s] EXCEPT !.receiver.private_key = g.self.private_key]]

\* receiver.generate_public_keys() in session id: the call reads and writes
\* the fields of its own receiver (&mut self) and nothing else.
generate_in(w, id, k, realOk, fakeOk) ==
    LET g == generate_public_keys(w[id].receiver, k, realOk, fakeOk) IN
    [w EXCEPT ![id] = [@ EXCEPT !.receiver = g.self,
                                !.offer = IF g.ret.ok THEN Some(g.ret.val) ELSE None,
                                !.phase = IF g.ret.ok THEN "KeysGenerated" ELSE "Aborted"]]

\* sender.encrypt_messages(public_keys) in session id, on the offer of that
\* session: the call reads its own sender (&self) and its argument.
encrypt_in(w, id, r0, r1) ==
    LET e == encrypt_messages(w[id].sender, w[id].offer[1], r0, r1) IN
    [w EXCEPT ![id] = [@ EXCEPT !.response = IF e.ret.ok THEN Some(e.ret.val) ELSE None,
                                !.phase = IF e.ret.ok THEN "ResponseReceived" ELSE "Aborted"]]

\* receiver.decrypt_message(response) in session id, on the response of that
\* session: the call reads its own receiver (&self) and its argument.
decrypt_in(w, id, unpadded) ==
    LET d == decrypt_message(w[id].receiver, w[id].response[1], unpadded) IN
    [w EXCEPT ![id] = [@ EXCEPT !.result = Some(d),
                                !.phase = IF d.ok THEN "Decrypted" ELSE "Aborted"]]

\* The variables of the single session, which stay as they are here.
single == <<receiver, sender, offer, response, genRet, encRet, decRet, encArg,
            encAttempted, decArg, decUnpadded, sinceEnc, calls, decoys, last,
            recvFailed, pure>>

TwoSessionsInit ==
    /\ receiver = OTReceiver_new("Zero")
    /\ sender = OTSender_new([len |-> MaxPayload, body |-> 0],
                             [len |-> MaxPayload, body |-> 0])
    /\ NothingCalled
    /\ pure = NoFunctionApplied
    /\ \E ca, cb \in Choice : \E ma0, ma1, mb0, mb1 \in Message :
          world = [a |-> NewSession(ca, ma0, ma1), b |-> NewSession(cb, mb0, mb1)]

SessionGenerate(id) ==
    /\ world[id].phase = "ReceiverInit"
    /\ \E realOk, fakeOk \in BOOLEAN :
         /\ world' = generate_in(world, id, nextKey, realOk, fakeOk)
         /\ nextKey' = nextKey
               + generate_public_keys(world[id].receiver, nextKey, realOk, fakeOk).used
    /\ UNCHANGED <<single, nextNonce>>

SessionEncrypt(id) ==
    /\ world[id].phase = "KeysGenerated"
    /\ world' = encrypt_in(world, id, nextNonce, nextNonce + 1)
    /\ nextNonce' = nextNonce
          + encrypt_messages(world[id].sender, world[id].offer[1],
                             nextNonce, nextNonce + 1).drawn
    /\ UNCHANGED <<single, nextKey>>

SessionDecrypt(id) ==
    /\ world[id].phase = "ResponseReceived"
    /\ \E unpadded \in UnpaddingsFor(world[id].receiver, world[id].response[1]) :
          world' = decrypt_in(world, id, unpadded)
    /\ UNCHANGED <<single, nextKey, nextNonce>>

TwoSessionsNext ==
    \E id \in SessionIds :
        SessionGenerate(id) \/ SessionEncrypt(id) \/ SessionDecrypt(id)

TwoSessionsSpec == TwoSessionsInit /\ [][TwoSessionsNext]_vars

\* ---- xor (src/xor.rs), applied to byte vectors of up to MaxXorLen bytes ----
\* x ^ y on the n low bits of two integers.
RECURSIVE BitXor(_, _, _)
BitXor(x, y, n) ==
    IF n = 0 THEN 0
    ELSE (((x % 2) + (y % 2)) % 2) + 2 * BitXor(x \div 2, y \div 2, n - 1)

\* x ^ y on u8
ByteXor(x, y) == BitXor(x, y, 8)

\* Vec::resize(new_len, 0) of a vector no longer than new_len
Resize(v, new_len) == [i \in 1..new_len |-> IF i <= Len(v) THEN v[i] ELSE 0]

\* Bug: the inputs are zipped without padding, the result stops with the
\* shorter one.
xor_truncating(a, b) ==
    LET min_len == IF Len(a) <= Len(b) THEN Len(a) ELSE Len(b)
    IN Ok([i \in 1..min_len |-> ByteXor(a[i], b[i])])

\* xor(a, b)
xor(a, b) ==
    LET max_len == IF Len(a) >= Len(b) THEN Len(a) ELSE Len(b)
        a_padded == Resize(a, max_len)
        b_padded == Resize(b, max_len)
    IN Ok([i \in 1..max_len |-> ByteXor(a_padded[i], b_padded[i])])

\* The bytes of the repository's tests (0x12, 0xAB), 0x00 and 0xFF.
XorBytes == {0, 18, 171, 255}
XorInputs == UNION { [1..n -> XorBytes] : n \in 0..MaxXorLen }

XorInit ==
    /\ receiver = OTReceiver_new("Zero")
    /\ sender = OTSender_new([len |-> MaxPayload, body |-> 0],
                             [len |-> MaxPayload, body |-> 0])
    /\ NothingCalled
    /\ \E a, b \in XorInputs : pure = [fn |-> "input", a |-> a, b |-> b]
    /\ world = NoSessions

Xor ==
    /\ pure.fn = "input"
    /\ pure' = [fn |-> "xor", a |-> pure.a, b |-> pure.b, ret |-> xor(pure.a, pure.b)]
    /\ UNCHANGED <<session, world>>

\* xor(&xor(a, b)?, b)
XorTwice ==
    /\ pure.fn = "input"
    /\ xor(pure.a, pure.b).ok
    /\ pure' = [fn |-> "xor(xor)", a |-> pure.a, b |-> pure.b,
                ret |-> xor(xor(pure.a, pure.b).val, pure.b)]
    /\ UNCHANGED <<session, world>>

XorNext == Xor \/ XorTwice

XorSpec == XorInit /\ [][XorNext]_vars

\* ---- Choice::from_bit and Choice::to_bit, applied to every u8 and Choice ----
ChoiceInit ==
    /\ receiver = OTReceiver_new("Zero")
    /\ sender = OTSender_new([len |-> MaxPayload, body |-> 0],
                             [len |-> MaxPayload, body |-> 0])
    /\ NothingCalled
    /\ \E b \in Byte, c \in Choice : pure = [fn |-> "input", bit |-> b, choice |-> c]
    /\ world = NoSessions

FromBit ==
    /\ pure.fn = "input"
    /\ pure' = [fn |-> "from_bit", bit |-> pure.bit, ret |-> from_bit(pure.bit)]
    /\ UNCHANGED <<session, world>>

ToBit ==
    /\ pure.fn = "input"
    /\ pure' = [fn |-> "to_bit", choice |-> pure.choice, ret |-> to_bit(pure.choice)]
    /\ UNCHANGED <<session, world>>

\* Choice::from_bit(c.to_bit())
FromBitOfToBit ==
    /\ pure.fn = "input"
    /\ pure' = [fn |-> "from_bit(to_bit)", choice |-> pure.choice,
                ret |-> from_bit(to_bit(pure.choice))]
    /\ UNCHANGED <<session, world>>

\* Choice::from_bit(b)?.to_bit()
ToBitOfFromBit ==
    /\ pure.fn = "input"
    /\ from_bit(pure.bit).ok
    /\ pure' = [fn |-> "to_bit(from_bit)", bit |-> pure.bit,
                ret |-> to_bit(from_bit(pure.bit).val)]
    /\ UNCHANGED <<session, world>>

ChoiceNext == FromBit \/ ToBit \/ FromBitOfToBit \/ ToBitOfFromBit

ChoiceSpec == ChoiceInit /\ [][ChoiceNext]_vars

\* ---- properties ----
ChosenMessage == sender.messages[IF receiver.choice = "Zero" THEN 1 ELSE 2]
OtherMessage == sender.messages[IF receiver.choice = "Zero" THEN 2 ELSE 1]

\* The run of the tests: generate_public_keys, encrypt_messages on the offer
\* it returned, decrypt_message on the response that returned, each once.
FullRun ==
    /\ calls = [gen |-> 1, enc |-> 1, dec |-> 1]
    /\ genRet.ok
    /\ encRet.ok
    /\ encArg = Some(genRet.val)
    /\ decArg = Some(encRet.val)

\* C1: a full run (OTReceiver::new(c), generate_public_keys, encrypt_messages
\* on its offer, decrypt_message on its response, each once and in that
\* order) returns the plaintext m_c, for every message pair and choice.
C1_Correctness == FullRun => decRet = Ok(ChosenMessage)

C1_Witness ==
    /\ FullRun
    /\ receiver.choice = "One"
    /\ sender.messages[1] # sender.messages[2]
    /\ decRet = Ok(sender.messages[2])

\* C2: when the two messages differ, the plaintext a full run returns is
\* never the message the receiver did not choose.
C2_OtherMessageSecret ==
    (FullRun /\ sender.messages[1] # sender.messages[2] /\ decRet.ok)
        => decRet.val # OtherMessage

C2_Witness ==
    /\ FullRun
    /\ receiver.choice = "Zero"
    /\ sender.messages[1] # sender.messages[2]
    /\ decRet.ok

\* The receiver holds no private key of a decoy pair.
NoDecoyPrivateKeyHeld ==
    \A i \in DOMAIN receiver.private_key :
        /\ receiver.private_key[i] \notin decoys
        /\ \A j \in DOMAIN receiver.fake_public_key :
               RsaPublicKey_from(receiver.private_key[i]) # receiver.fake_public_key[j]

\* The private key the receiver holds is the one whose public half is in the
\* chosen slot of the offer it handed out.
HeldKeyIsOffered ==
    \A i \in DOMAIN receiver.private_key :
        /\ offer # None
        /\ RsaPublicKey_from(receiver.private_key[i])
             = (IF receiver.choice = "Zero" THEN offer[1].pk0 ELSE offer[1].pk1)

\* C3: in every state after generate_public_keys has returned (any number of
\* calls, successful or failed) the receiver holds no private key matching a
\* decoy public key, and the only private key it holds is the one whose
\* public half was placed in the chosen slot.
C3_DecoyNonRetention ==
    calls.gen > 0 => (NoDecoyPrivateKeyHeld /\ HeldKeyIsOffered)

\* C4: an offer returned by a successful generate_public_keys holds the real
\* public key (the public half of the stored private key) in exactly one
\* slot and the decoy public key in the other: (real, decoy) for choice
\* Zero, (decoy, real) for choice One.
C4_SlotArrangement ==
    genRet.ok =>
        LET real == RsaPublicKey_from(receiver.private_key[1])
            decoy == receiver.fake_public_key[1]
        IN /\ real # decoy
           /\ [priv |-> decoy.pub] \in decoys
           /\ receiver.choice = "Zero" => genRet.val = [pk0 |-> real, pk1 |-> decoy]
           /\ receiver.choice = "One" => genRet.val = [pk0 |-> decoy, pk1 |-> real]

C4_Witness ==
    /\ genRet.ok
    /\ calls.gen = 2
    /\ receiver.choice = "One"
    /\ genRet.val.pk1 = RsaPublicKey_from(receiver.private_key[1])

\* C5: on a receiver whose generate_public_keys has not been called,
\* decrypt_message fails with the protocol-state error, which is not the
\* decryption error, and returns no plaintext, whatever response it is given.
C5_StateOrder ==
    (calls.gen = 0 /\ calls.dec > 0) =>
        /\ decRet = Err(ErrProtocolState)
        /\ decRet # Err(ErrDecryption)

C5_Witness ==
    /\ calls.gen = 0
    /\ calls.dec > 0
    /\ response # None
    /\ decArg = response
    /\ ~decRet.ok

\* C6: no operation succeeds twice on one session: a second
\* generate_public_keys, encrypt_messages or decrypt_message is an error.
C6_OneShot ==
    /\ calls.gen >= 2 => ~genRet.ok
    /\ calls.enc >= 2 => ~encRet.ok
    /\ calls.dec >= 2 => ~decRet.ok

\* C7: a generate_public_keys that returns an error leaves private_key and
\* fake_public_key as they were before the call.
C7_NoPartialState ==
    [][(calls'.gen = calls.gen + 1 /\ ~genRet'.ok) => receiver' = receiver]_vars

\* C8: encrypt_messages returns either a response whose slot i is an
\* encryption of message i under the key of slot i of the offer, for both
\* slots, or an error and no response.
C8_AllOrNothing ==
    calls.enc > 0 =>
        IF encRet.ok
        THEN /\ DOMAIN encRet.val = {"encrypted_m0", "encrypted_m1"}
             /\ encRet.val.encrypted_m0.kind = "enc"
             /\ encRet.val.encrypted_m0.key = encArg[1].pk0
             /\ encRet.val.encrypted_m0.msg = sender.messages[1]
             /\ encRet.val.encrypted_m1.kind = "enc"
             /\ encRet.val.encrypted_m1.key = encArg[1].pk1
             /\ encRet.val.encrypted_m1.msg = sender.messages[2]
        ELSE DOMAIN encRet = {"ok", "err"}

C8_Witness ==
    /\ encRet.ok
    /\ encArg = offer
    /\ encRet.val.encrypted_m0.key # encRet.val.encrypted_m1.key
    /\ sender.messages[1] # sender.messages[2]

BothFit ==
    /\ sender.messages[1].len <= MaxPayload
    /\ sender.messages[2].len <= MaxPayload

\* C9, as stated: encrypt_messages on the offer of a receiver succeeds,
\* for choice Zero and for choice One.
C9_AlwaysSucceeds ==
    (calls.enc > 0 /\ encArg # Some(ForeignOffer)) => encRet.ok

\* C9, amended: the steps and the outcome of encrypt_messages are decided by
\* the two messages alone, the same for choice Zero and choice One and for
\* every offer: it succeeds when both messages fit the payload of the key
\* and fails with the encryption error otherwise.
C9_OutcomeIndependentOfChoice ==
    calls.enc > 0 =>
        /\ encRet.ok <=> BothFit
        /\ ~encRet.ok => encRet = Err(ErrMessageTooLong)
        /\ encAttempted = (IF sender.messages[1].len <= MaxPayload THEN 2 ELSE 1)

C9_Witness ==
    /\ calls.enc > 0
    /\ encArg = offer
    /\ offer # None
    /\ receiver.choice = "One"
    /\ encRet.ok

\* C10: once an operation of the receiver's session has returned an error,
\* no later operation of that session returns a successful result.
C10_FailureAborts ==
    [][recvFailed => ~(last'.op \in {"gen", "dec"} /\ last'.ok)]_vars

\* C11: Choice::from_bit(b) is an error for every u8 outside {0, 1}, Ok(Zero)
\* for 0 and Ok(One) for 1; no other bit yields a Choice.
C11_MalformedChoiceRejected ==
    pure.fn = "from_bit" =>
        /\ pure.bit = 0 => pure.ret = Ok("Zero")
        /\ pure.bit = 1 => pure.ret = Ok("One")
        /\ pure.bit \notin {0, 1} => ~pure.ret.ok
        /\ pure.ret.ok => pure.bit \in {0, 1}

C11_Witness ==
    /\ pure.fn = "from_bit"
    /\ pure.bit = 2
    /\ ~pure.ret.ok

\* C12: from_bit(c.to_bit()) is Ok(c) for both choices, to_bit(from_bit(b))
\* is b for b in {0, 1}, and to_bit returns 0 or 1 for every choice.
C12_ChoiceRoundTrip ==
    /\ pure.fn = "from_bit(to_bit)" => pure.ret = Ok(pure.choice)
    /\ pure.fn = "to_bit(from_bit)" => pure.ret = pure.bit
    /\ pure.fn = "to_bit" => pure.ret \in {0, 1}

C12_Witness ==
    /\ pure.fn = "from_bit(to_bit)"
    /\ pure.choice = "One"
    /\ pure.ret = Ok("One")

\* What a value that leaves the receiver may be made of.
IsPublicKey(x) == DOMAIN x = {"pub"}
IsOffer(x) == DOMAIN x = {"pk0", "pk1"} /\ IsPublicKey(x.pk0) /\ IsPublicKey(x.pk1)
IsErrorText(x) ==
    x \in {ErrKeyGeneration, ErrMessageTooLong, ErrDecryption, ErrProtocolState}
IsCiphertext(x) ==
    \/ x = Garbage
    \/ /\ DOMAIN x = {"kind", "key", "msg", "nonce"}
       /\ IsPublicKey(x.key)
       /\ x.msg \in Message
       /\ x.nonce \in Nat
IsResponse(x) ==
    /\ DOMAIN x = {"encrypted_m0", "encrypted_m1"}
    /\ IsCiphertext(x.encrypted_m0)
    /\ IsCiphertext(x.encrypted_m1)

\* C13: the real private key is held by the receiver alone: the offer, the
\* plaintext and the errors the receiver returns, the sender's state and
\* everything passed between the two hold public keys, messages, ciphertexts
\* and error texts, never a private key.
C13_PrivateKeyConfinement ==
    /\ IF genRet.ok THEN IsOffer(genRet.val) ELSE IsErrorText(genRet.err) \/ calls.gen = 0
    /\ IF decRet.ok THEN decRet.val \in Message ELSE IsErrorText(decRet.err) \/ calls.dec = 0
    /\ IF encRet.ok THEN IsResponse(encRet.val) ELSE IsErrorText(encRet.err) \/ calls.enc = 0
    /\ \A i \in DOMAIN offer : IsOffer(offer[i])
    /\ \A i \in DOMAIN encArg : IsOffer(encArg[i])
    /\ \A i \in DOMAIN response : IsResponse(response[i])
    /\ \A i \in DOMAIN decArg : IsResponse(decArg[i])
    /\ DOMAIN sender = {"messages"}
    /\ \A i \in DOMAIN sender.messages : sender.messages[i] \in Message

C13_Witness ==
    /\ receiver.private_key # None
    /\ genRet.ok
    /\ encRet.ok
    /\ encArg = Some(genRet.val)
    /\ decRet.ok

\* Every response that can be put together from the ciphertexts at hand and
\* a malformed one.
CiphertextsAtHand ==
    {Garbage} \cup UNION { {response[i].encrypted_m0, response[i].encrypted_m1} :
                           i \in DOMAIN response }
ResponsesAtHand == [encrypted_m0 : CiphertextsAtHand, encrypted_m1 : CiphertextsAtHand]

Slot(resp, i) == IF i = 0 THEN resp.encrypted_m0 ELSE resp.encrypted_m1

\* resp with the slot the receiver did not choose overwritten by x.
WithOtherSlot(resp, x) ==
    IF to_bit(receiver.choice) = 0
    THEN [resp EXCEPT !.encrypted_m1 = x]
    ELSE [resp EXCEPT !.encrypted_m0 = x]

\* C14: decrypt_message depends on slot c.to_bit() of the response alone:
\* whatever the other slot holds, the result is the one for the response
\* with the other slot overwritten (so two responses that agree on slot c
\* give the same result), and it is the decryption of slot c.
C14_OnlyChosenSlotRead ==
    \A r1 \in ResponsesAtHand, unpadded \in Unpaddings :
        /\ Slot(r1, to_bit(receiver.choice))
             = Slot(WithOtherSlot(r1, Garbage), to_bit(receiver.choice))
        /\ decrypt_message(receiver, r1, unpadded)
             = decrypt_message(receiver, WithOtherSlot(r1, Garbage), unpadded)
        /\ receiver.private_key # None
             => decrypt_message(receiver, r1, unpadded)
                  = Pkcs1Decrypt(receiver.private_key[1],
                                 Slot(r1, to_bit(receiver.choice)), unpadded)

\* The receiver is handed a response whose chosen slot it can open and whose
\* other slot was overwritten, and opens it.
C14_Witness ==
    /\ calls.dec > 0
    /\ decRet = Ok(ChosenMessage)
    /\ response # None
    /\ decArg # response
    /\ Slot(decArg[1], 1 - to_bit(receiver.choice)) = Garbage
    /\ decrypt_message(receiver, response[1], decUnpadded) = decRet

\* C15, as stated: every call of encrypt_messages attempts both encryptions,
\* whatever the outcome of the other one.
C15_BothAttempted == calls.enc > 0 => encAttempted = 2

\* C15, amended: a call of encrypt_messages attempts both encryptions when
\* the encryption of message 0 succeeds, whether the encryption of message 1
\* then succeeds or fails and whichever slot holds the decoy key; when the
\* encryption of message 0 fails the call returns that error and message 1
\* is not encrypted.
C15_BothAttemptedUnlessFirstFails ==
    calls.enc > 0 =>
        /\ sender.messages[1].len <= MaxPayload => encAttempted = 2
        /\ sender.messages[1].len > MaxPayload
             => (encAttempted = 1 /\ encRet = Err(ErrMessageTooLong))

C15_Witness ==
    /\ calls.enc > 0
    /\ sender.messages[1].len <= MaxPayload
    /\ sender.messages[2].len > MaxPayload
    /\ ~encRet.ok
    /\ encAttempted = 2

\* Only generate_public_keys changes the receiver, and it never changes the
\* choice; encrypt_messages and decrypt_message leave every field alone.
ReceiverFrame ==
    [][receiver' # receiver =>
          (calls'.gen = calls.gen + 1 /\ receiver'.choice = receiver.choice)]_vars

\* C16: the receiver's state is mutated exactly once per session: the choice
\* never changes, the only step that changes the state is the
\* generate_public_keys that sets the private key of a receiver that had
\* none, and decrypt_message changes nothing.
C16_MutatedOnce ==
    [][receiver' # receiver =>
          /\ calls'.gen = calls.gen + 1
          /\ receiver'.choice = receiver.choice
          /\ receiver.private_key = None
          /\ receiver'.private_key # None]_vars

\* decrypt_message has just been given, untouched, the response the sender
\* made for the offer that holds the public half of the key the receiver
\* then stored, generate_public_keys having been invoked again on the
\* receiver since the sender made it.
StaleResponseDecrypted ==
    /\ last.op = "dec"
    /\ encRet.ok
    /\ sinceEnc.key # None
    /\ RsaPublicKey_from(sinceEnc.key[1]) \in {encArg[1].pk0, encArg[1].pk1}
    /\ decArg = Some(encRet.val)
    /\ sinceEnc.invoked

\* One of the calls of generate_public_keys since the response was made got
\* past its first key generation, the one whose result it stores.
KeyGeneratedSince == sinceEnc.generated

\* What RsaPrivateKey::decrypt returned in the last decrypt_message when the
\* ciphertext was not made under the public half of the key.
WrongKeyOutcome ==
    IF decUnpadded = None THEN Err(ErrDecryption) ELSE Ok(decUnpadded[1])

\* C17, as stated: when generate_public_keys is invoked again after the
\* sender has encrypted against the first offer, the stored private key is a
\* new one, and decrypt_message on the response made for the first offer
\* fails with the decryption error instead of returning m_c.
C17_SecondCallInvalidates ==
    StaleResponseDecrypted =>
        /\ RsaPublicKey_from(receiver.private_key[1]) \notin {encArg[1].pk0, encArg[1].pk1}
        /\ decRet = Err(ErrDecryption)
        /\ decRet # Ok(ChosenMessage)

\* C17, amended: when generate_public_keys is invoked again after the sender
\* has encrypted against the first offer, the stored private key is replaced
\* by a new one exactly when the call gets past its first key generation
\* (whether or not it then returns an offer). Once the key is replaced,
\* decrypt_message on the response made for the first offer returns what
\* the RSA decryption under the new key returns: the decryption error, or,
\* when the unpadding takes the bytes for a padded plaintext, the bytes it
\* yields; m_c only if they happen to be m_c. While every later call has
\* failed at its first key generation, the old key stays and decrypt_message
\* still returns m_c.
C17_StaleResponse ==
    StaleResponseDecrypted =>
        /\ KeyGeneratedSince <=> receiver.private_key # sinceEnc.key
        /\ KeyGeneratedSince
             => /\ RsaPublicKey_from(receiver.private_key[1])
                     \notin {encArg[1].pk0, encArg[1].pk1}
                /\ decRet = WrongKeyOutcome
        /\ (KeyGeneratedSince /\ decUnpadded = None) => decRet = Err(ErrDecryption)
        /\ ~KeyGeneratedSince => decRet = Ok(ChosenMessage)

\* The second generate_public_keys returned a new offer, and the response
\* made for the first offer, which holds m_c in slot c, is rejected.
C17_Witness ==
    /\ StaleResponseDecrypted
    /\ calls.gen = 2
    /\ genRet.ok
    /\ KeyGeneratedSince
    /\ decUnpadded = None
    /\ Slot(decArg[1], to_bit(receiver.choice)).msg = ChosenMessage
    /\ decRet = Err(ErrDecryption)

\* decrypt_message has just been called on a receiver that holds a private
\* key, with a response whose slot c is not an encryption under the public
\* half of that key.
UndecryptableSlotGiven ==
    /\ last.op = "dec"
    /\ receiver.private_key # None
    /\ LET ct == Slot(decArg[1], to_bit(receiver.choice)) IN
         \/ ct = Garbage
         \/ ct.key # RsaPublicKey_from(receiver.private_key[1])

\* C18, as stated: for a receiver that has generated its keys, a response
\* whose slot c is malformed or encrypted under the decoy key or a key of
\* another offer makes decrypt_message return the decryption error and no
\* plaintext.
C18_NeverPlaintext ==
    UndecryptableSlotGiven => decRet = Err(ErrDecryption)

\* C18, amended: for a receiver that has generated its keys and a response
\* whose slot c is malformed or encrypted under the decoy key or a key of
\* another offer, decrypt_message returns what the RSA decryption of slot c
\* returns: the decryption error and no plaintext whenever the unpadding
\* rejects the bytes, a plaintext only when the unpadding takes them for a
\* padded plaintext, and then the bytes it yields.
C18_DecryptionFailureSurfaced ==
    UndecryptableSlotGiven =>
        /\ decRet = WrongKeyOutcome
        /\ decUnpadded = None => decRet = Err(ErrDecryption)
        /\ decRet.ok => (decUnpadded # None /\ decRet.val = decUnpadded[1])

\* The response was handed over with its slots exchanged: slot c holds the
\* ciphertext made under the decoy key, and the unpadding rejects it.
C18_Witness ==
    /\ UndecryptableSlotGiven
    /\ genRet.ok
    /\ Slot(decArg[1], to_bit(receiver.choice)) # Garbage
    /\ Some(Slot(decArg[1], to_bit(receiver.choice)).key) = receiver.fake_public_key
    /\ decUnpadded = None
    /\ decRet = Err(ErrDecryption)

\* The i-th byte of v, a missing byte counting as 0.
ByteAt(v, i) == IF i \in DOMAIN v THEN v[i] ELSE 0

\* C20: xor(a, b) succeeds, its result has max(len(a), len(b)) bytes, byte i
\* being a[i] ^ b[i] with a missing byte counted as 0; xor is commutative
\* and, for inputs of equal length, xor(xor(a, b), b) is a.
C20_Xor ==
    /\ pure.fn = "xor" =>
         /\ pure.ret.ok
         /\ Len(pure.ret.val) = (IF Len(pure.a) >= Len(pure.b) THEN Len(pure.a) ELSE Len(pure.b))
         /\ \A i \in DOMAIN pure.ret.val :
               /\ pure.ret.val[i] \in Byte
               /\ pure.ret.val[i] = ByteXor(ByteAt(pure.a, i), ByteAt(pure.b, i))
               /\ ByteAt(pure.b, i) = 0 => pure.ret.val[i] = ByteAt(pure.a, i)
               /\ ByteAt(pure.a, i) = ByteAt(pure.b, i) => pure.ret.val[i] = 0
               /\ ByteAt(pure.b, i) = 255 => pure.ret.val[i] = 255 - ByteAt(pure.a, i)
               /\ (ByteAt(pure.a, i) = 18 /\ ByteAt(pure.b, i) = 171) => pure.ret.val[i] = 185
         /\ pure.ret = xor(pure.b, pure.a)
    /\ (pure.fn = "xor(xor)" /\ Len(pure.a) = Len(pure.b)) => pure.ret = Ok(pure.a)

\* The shape of test_xor_different_lengths: a shorter first input, the last
\* byte of the result being the unmatched byte of the second.
C20_Witness ==
    /\ pure.fn = "xor"
    /\ pure.a = <<18>>
    /\ pure.b = <<171, 255>>
    /\ pure.ret = Ok(<<185, 255>>)

\* What a session returns when it runs alone: generate_public_keys,
\* encrypt_messages on its offer, decrypt_message on its response.
AloneResult(c, m0, m1, unpadded) ==
    LET g == generate_public_keys(OTReceiver_new(c), 1, TRUE, TRUE)
        e == encrypt_messages(OTSender_new(m0, m1), g.ret.val, 1, 2)
    IN IF e.ret.ok THEN decrypt_message(g.self, e.ret.val, unpadded) ELSE e.ret

\* The result of each session that has come to decrypt_message is the one it
\* produces alone, m_c of its own sender for its own choice.
OwnResult ==
    \A id \in DOMAIN world :
        LET s == world[id] IN
        s.result # None =>
            /\ \A unpadded \in Unpaddings :
                 s.result[1] = AloneResult(s.receiver.choice, s.sender.messages[1],
                                           s.sender.messages[2], unpadded)
            /\ s.result[1] = Ok(s.sender.messages[to_bit(s.receiver.choice) + 1])

\* A step of one session leaves the other session as it was.
OtherSessionUntouched ==
    \A id \in DOMAIN world :
        world'[id] # world[id] =>
            \A o \in DOMAIN world \ {id} : world'[o] = world[o]

\* C19: with the operations of two sessions interleaved in any order, each
\* session in its own phase order, no operation of one session changes the
\* state of the other, and each session's result is the one it produces
\* alone: m_c of its own sender for its own choice.
C19_SessionIndependence == []OwnResult /\ [][OtherSessionUntouched]_vars

\* Both sessions have finished, the second one generating its keys between
\* the first one's key generation and decryption, with different messages
\* and choices.
C19_Witness ==
    /\ world # NoSessions
    /\ world["a"].phase = "Decrypted"
    /\ world["b"].phase = "Decrypted"
    /\ world["a"].receiver.choice # world["b"].receiver.choice
    /\ world["a"].result # world["b"].result
    /\ world["a"].receiver.private_key[1].priv < world["b"].receiver.private_key[1].priv
    /\ world["a"].response[1].encrypted_m0.nonce > world["b"].response[1].encrypted_m0.nonce

====
